---- MODULE Spec2Model ----
(***************************************************************************)
(* RedditSource (src/reddit_source.py): construction of the collector and  *)
(* one collect(topic, since) call, stepped through its nested loops over   *)
(* keywords, subreddits, submissions and comments.                         *)
(*                                                                         *)
(* Python values are represented as follows.                               *)
(*   - an optional value (None or v) is a sequence of length 0 or 1;       *)
(*   - a dict is a function whose DOMAIN is the set of keys present;       *)
(*   - a datetime is an integer number of hours of local wall-clock time; *)
(*     created_utc is an integer number of hours since the epoch.          *)
(***************************************************************************)
EXTENDS Integers, Sequences, FiniteSets, TLC

VARIABLES
    pc,          \* position of the program
    config,      \* constructor argument `config` (optional dict)
    topic,       \* collect argument `topic` (dict)
    sinceArg,    \* collect argument `since` (optional datetime)
    rejects,     \* items the base class's validate_mention turns down
    reddit,      \* self.reddit (optional handle)
    since,       \* local `since` after lines 42-43
    keywords,    \* local `keywords` (parsed JSON value)
    subreddits,  \* local `subreddits`
    ki,          \* position of `keyword` in the keyword iteration
    ci,          \* position of `subreddit_name` in `subreddits`
    hits,        \* submissions the running search yields
    hi,          \* position of `submission` in hits
    clist,       \* submission.comments.list()[:10] of the current submission
    cj,          \* position of `comment` in clist
    mentions,    \* local `mentions`
    outcome,     \* "none", "returned" or "raised": how the last call ended
    exc,         \* the exception that reached the caller (optional)
    result,      \* the value returned to the caller (optional list)
    calls,       \* history: number of platform calls made by collect
    faults,      \* history: number of errors the platform raised inside collect
    attempted,   \* history: (keyword, subreddit) positions whose search began
    failed,      \* history: (keyword, subreddit) positions cut short by an error
    skipped,     \* history: ids of submissions dropped by the time filter
    fetched      \* history: ids of submissions whose comments were fetched

vars == << pc, config, topic, sinceArg, rejects, reddit, since, keywords,
           subreddits, ki, ci, hits, hi, clist, cj, mentions, outcome, exc,
           result, calls, faults, attempted, failed, skipped, fetched >>

-----------------------------------------------------------------------------
(* Bounds of the model.                                                    *)

\* Errors the platform raises at most during one collect call.
MaxFaults == 2
\* datetime.now() at the time of the call, in hours of local time.
Clock == 48
\* Hours by which local wall-clock time is ahead of UTC.
UtcOffset == 1

(* Constants of the program.                                               *)

WindowHours == 24
SearchLimit == 50
CommentLimit == 10

-----------------------------------------------------------------------------
(* Python helpers.                                                         *)

None == << >>
Some(v) == << v >>

\* dict.get(key, default)
Get(d, key, default) == IF key \in DOMAIN d THEN d[key] ELSE default

Min(a, b) == IF a < b THEN a ELSE b

\* list[:n]
Take(s, n) == SubSeq(s, 1, Min(n, Len(s)))

\* datetime.fromtimestamp(ts): epoch time to naive local time
FromTimestamp(ts) == ts + UtcOffset

\* datetime.now()
Now == Clock

\* json.loads on the texts the model feeds it.  A value is
\* [kind, items, n]: items are the elements a `for` loop over the value
\* yields (list elements, characters of a str, keys of a dict), n the
\* number when the value is one.
JsonValue(kind, items, n) == [kind |-> kind, items |-> items, n |-> n]

JsonLoads(s) ==
    CASE s = "[]"                   -> JsonValue("list", << >>, 0)
      [] s = "[\"GME\"]"            -> JsonValue("list", << "GME" >>, 0)
      [] s = "[\"GME\", \"AMC\"]"   -> JsonValue("list", << "GME", "AMC" >>, 0)
      [] s = "\"ab\""               -> JsonValue("str", << "a", "b" >>, 0)
      [] s = "5"                    -> JsonValue("int", << >>, 5)
      [] s = "{\"k\": 1}"           -> JsonValue("dict", << "k" >>, 0)
      [] OTHER                      -> JsonValue("JSONDecodeError", << >>, 0)

\* bool(value)
Truthy(v) == IF v.kind = "int" THEN v.n # 0 ELSE v.items # << >>

\* whether iter(value) succeeds
Iterable(v) == v.kind \in {"list", "str", "dict"}

-----------------------------------------------------------------------------
(* The platform: what praw serves during the call.                         *)

\* submission.comments.list(): the comments of a submission, best first.
\* p1 carries one comment more than collect reads.
CommentsOf(id) ==
    CASE id = "p1" ->
           [ i \in 1..(CommentLimit + 1) |->
               [ id          |-> "p1c" \o ToString(i),
                 body        |-> "to the moon",
                 permalink   |-> "/r/wallstreetbets/comments/p1/x/c" \o ToString(i),
                 author      |-> Some("bob"),
                 created_utc |-> Clock - UtcOffset - 1,
                 score       |-> 2 ] ]
      [] id = "p2" ->
           << [ id          |-> "p2c1",
                body        |-> "still holding",
                permalink   |-> "/r/stocks/comments/p2/x/c1",
                author      |-> None,
                created_utc |-> Clock - UtcOffset - 2,
                score       |-> 7 ],
              [ id          |-> "p2c2",
                body        |-> "first",
                permalink   |-> "/r/stocks/comments/p2/x/c2",
                author      |-> Some("carol"),
                created_utc |-> Clock - UtcOffset - 29,
                score       |-> 1 ] >>
      [] OTHER -> << >>

\* The submissions the platform knows: p1 is one hour old, p3 exactly
\* WindowHours old, p2 thirty hours old.
Submission(id) ==
    CASE id = "p1" ->
           [ id |-> "p1", subreddit |-> "wallstreetbets", tickers |-> {"GME"},
             title |-> "GME squeeze", selftext |-> "dd inside",
             permalink |-> "/r/wallstreetbets/comments/p1/x",
             author |-> Some("alice"), created_utc |-> Clock - UtcOffset - 1,
             score |-> 100, num_comments |-> 5 ]
      [] id = "p2" ->
           [ id |-> "p2", subreddit |-> "stocks", tickers |-> {"GME", "AMC"},
             title |-> "GME vs AMC", selftext |-> "",
             permalink |-> "/r/stocks/comments/p2/x",
             author |-> Some("dave"), created_utc |-> Clock - UtcOffset - 30,
             score |-> 10, num_comments |-> 2 ]
      [] OTHER ->
           [ id |-> "p3", subreddit |-> "technology", tickers |-> {"AMC"},
             title |-> "AMC streaming", selftext |-> "link",
             permalink |-> "/r/technology/comments/p3/x",
             author |-> None, created_utc |-> Clock - UtcOffset - WindowHours,
             score |-> 3, num_comments |-> 0 ]

\* All submissions, newest first (sort='new').
NewestFirst == << "p1", "p3", "p2" >>

SearchHit(id, keyword, subreddit_name) ==
    /\ keyword \in Submission(id).tickers
    /\ subreddit_name \in {"all", Submission(id).subreddit}

\* self.reddit.subreddit(subreddit_name).search(keyword, time_filter='day',
\* limit=50, sort='new')
Search(keyword, subreddit_name) ==
    Take(SelectSeq(NewestFirst,
                   LAMBDA id : SearchHit(id, keyword, subreddit_name)),
         SearchLimit)

-----------------------------------------------------------------------------
(* The base class (base_source.py).                                        *)

\* BaseSource.validate_mention
ValidateMention(mention) == mention.post_id \notin rejects

\* BaseSource.normalize_mention
NormalizeMention(mention) == mention

-----------------------------------------------------------------------------
(* Pieces of collect.                                                      *)

\* lines 42-43
EffectiveSince(arg) == IF arg = None THEN Now - WindowHours ELSE arg[1]

\* line 46 with '' for the default
KeywordsTextEmptyDefault(t) == Get(t, "keywords", "")

\* line 46: topic.get('keywords', '[]')
KeywordsText(t) == Get(t, "keywords", "[]")

\* the comparison of lines 69 and 89 turned round
IsStaleReversed(item_time, bound) == item_time > bound

\* lines 69 and 89: the item is older than the window
IsStale(item_time, bound) == item_time < bound

\* `str(x.author) if x.author else '[deleted]'`
AuthorName(author) == IF author # None THEN author[1] ELSE "[deleted]"

\* lines 73-80; `origin` records where in the loops the mention was built
PostMention(s, post_time, origin) ==
    [ text             |-> s.title \o " " \o s.selftext,
      url              |-> "https://reddit.com" \o s.permalink,
      author           |-> AuthorName(s.author),
      post_id          |-> "reddit_" \o s.id,
      posted_at        |-> post_time,
      engagement_score |-> s.score + s.num_comments,
      origin           |-> origin ]

\* lines 92-99
CommentMention(c, comment_time, origin) ==
    [ text             |-> c.body,
      url              |-> "https://reddit.com" \o c.permalink,
      author           |-> AuthorName(c.author),
      post_id          |-> "reddit_" \o c.id,
      posted_at        |-> comment_time,
      engagement_score |-> c.score,
      origin           |-> origin ]

\* mentions.insert(0, x)
ListPrepend(list, x) == << x >> \o list

\* mentions.append(x)
ListAppend(list, x) == Append(list, x)

\* lines 82-83 and 101-102
AddIfValid(list, mention) ==
    IF ValidateMention(mention)
    THEN ListAppend(list, NormalizeMention(mention))
    ELSE list

\* lines 113-129 with the type's defaults looked up before the override
GetRelevantSubredditsDefaultsFirst(topic_type) ==
    LET custom_subreddits == Get(config[1], "subreddits", << >>)
    IN  CASE topic_type = "stock" ->
               << "wallstreetbets", "stocks", "investing",
                  "stockmarket", "options" >>
          [] topic_type = "topic" ->
               << "technology", "Futurology", "science", "news" >>
          [] topic_type = "keyword" -> << "all" >>
          [] OTHER -> IF custom_subreddits # << >>
                      THEN custom_subreddits
                      ELSE << "all" >>

\* lines 113-129
GetRelevantSubreddits(topic_type) ==
    LET custom_subreddits == Get(config[1], "subreddits", << >>)
    IN  IF custom_subreddits # << >>
        THEN custom_subreddits
        ELSE CASE topic_type = "stock" ->
                    << "wallstreetbets", "stocks", "investing",
                       "stockmarket", "options" >>
               [] topic_type = "topic" ->
                    << "technology", "Futurology", "science", "news" >>
               [] topic_type = "keyword" -> << "all" >>
               [] OTHER -> << "all" >>

-----------------------------------------------------------------------------
(* Inputs.                                                                 *)

\* topic['keywords'] values: JSON arrays, JSON of another shape, and text
\* that is not JSON ("" included)
KeywordTexts ==
    { "[]", "[\"GME\"]", "[\"GME\", \"AMC\"]", "\"ab\"", "5", "{\"k\": 1}",
      "not json", "" }

TopicTypes == { "stock", "topic", "keyword", "crypto" }

\* A dict with the keys whose optional value is present.
Dict2(k1, v1, k2, v2) ==
    [ k \in (IF v1 = None THEN {} ELSE {k1}) \cup (IF v2 = None THEN {} ELSE {k2})
        |-> IF k = k1 THEN v1[1] ELSE v2[1] ]

Topics ==
    { Dict2("keywords", kw, "type", ty) :
        kw \in {None} \cup { Some(t) : t \in KeywordTexts },
        ty \in {None} \cup { Some(t) : t \in TopicTypes } }

\* config: None, or a dict with or without the 'subreddits' override
Configs ==
    { None, Some(<< >>) } \cup
    { Some([ subreddits |-> l ]) :
        l \in { << >>, << "foo", "bar" >>, << "stocks", "all" >> } }

SinceArgs == { None, Some(Clock - 38), Some(Clock - 23) }

\* what validate_mention turns down
RejectSets == { {}, {"reddit_p1"}, {"reddit_p2c1"} }

\* what praw.Reddit(...) raises, if anything
PrawErrors == { None, Some("Required configuration setting 'client_id' missing.") }

Init ==
    /\ pc = "new"
    /\ config \in Configs
    /\ topic \in Topics
    /\ sinceArg \in SinceArgs
    /\ rejects \in RejectSets
    /\ reddit = None
    /\ since = 0
    /\ keywords = JsonValue("list", << >>, 0)
    /\ subreddits = << >>
    /\ ki = 0
    /\ ci = 0
    /\ hits = << >>
    /\ hi = 0
    /\ clist = << >>
    /\ cj = 0
    /\ mentions = << >>
    /\ outcome = "none"
    /\ exc = None
    /\ result = None
    /\ calls = 0
    /\ faults = 0
    /\ attempted = {}
    /\ failed = {}
    /\ skipped = {}
    /\ fetched = {}

-----------------------------------------------------------------------------
(* Exceptions.                                                             *)

Exception(type, message, cause, where) ==
    [ type |-> type, message |-> message, cause |-> cause, where |-> where ]

\* line 34 without the cause in the message
InitErrorNoCause(cause) ==
    Exception("SourceCollectionError",
              "Failed to initialize Reddit client", cause, "__init__")

\* line 34
InitError(cause) ==
    Exception("SourceCollectionError",
              "Failed to initialize Reddit client: " \o cause, cause, "__init__")

\* line 109
CollectionError(cause) ==
    Exception("SourceCollectionError",
              "Reddit collection failed: " \o cause, cause, "collect")

\* an exception no handler of collect catches
Uncaught(type, message) == Exception(type, message, message, "collect")

Raise(e) ==
    /\ pc' = "done"
    /\ outcome' = "raised"
    /\ exc' = Some(e)
    /\ UNCHANGED result

local == << since, keywords, subreddits, ki, ci, hits, hi, clist, cj, mentions >>
inputs == << config, topic, sinceArg, rejects >>
history == << calls, faults, attempted, failed, skipped, fetched >>

-----------------------------------------------------------------------------
(* Operations.                                                             *)

\* lines 22-34: __init__
Construct ==
    /\ pc = "new"
    /\ \E praw_error \in PrawErrors :
         IF config = None
         THEN \* config.get on None raises inside the try
              /\ Raise(InitError("'NoneType' object has no attribute 'get'"))
              /\ UNCHANGED reddit
         ELSE IF praw_error # None
         THEN /\ Raise(InitError(praw_error[1]))
              /\ UNCHANGED reddit
         ELSE /\ reddit' = Some([ read_only |-> TRUE ])
              /\ pc' = "ready"
              /\ UNCHANGED << outcome, exc, result >>
    /\ UNCHANGED << local, inputs, history >>

\* lines 42-52: the window, the keywords and the subreddits
CollectBegin ==
    /\ pc = "ready"
    /\ since' = EffectiveSince(sinceArg)
    /\ LET parsed == JsonLoads(KeywordsText(topic))
       IN  IF parsed.kind = "JSONDecodeError"
           THEN \* json.loads raises outside every try
                /\ Raise(Uncaught("JSONDecodeError", "Expecting value"))
                /\ UNCHANGED << keywords, subreddits >>
           ELSE IF ~Truthy(parsed)
           THEN \* line 49
                /\ pc' = "done"
                /\ outcome' = "returned"
                /\ result' = Some(mentions)
                /\ keywords' = parsed
                /\ UNCHANGED << exc, subreddits >>
           ELSE /\ keywords' = parsed
                /\ subreddits' = GetRelevantSubreddits(Get(topic, "type", "topic"))
                /\ pc' = "keyword"
                /\ UNCHANGED << outcome, exc, result >>
    /\ UNCHANGED << ki, ci, hits, hi, clist, cj, mentions, reddit, inputs, history >>

\* line 55: `for keyword in keywords`
NextKeyword ==
    /\ pc = "keyword"
    /\ IF ~Iterable(keywords)
       THEN pc' = "outer_except" /\ UNCHANGED << ki, ci >>
       ELSE IF ki < Len(keywords.items)
       THEN ki' = ki + 1 /\ ci' = 0 /\ pc' = "subreddit"
       ELSE pc' = "return" /\ UNCHANGED << ki, ci >>
    /\ UNCHANGED << since, keywords, subreddits, hits, hi, clist, cj, mentions,
                    outcome, exc, result, reddit, inputs, history >>

\* lines 56-66: `for subreddit_name in subreddits`, and the search it starts
NextSubreddit ==
    /\ pc = "subreddit"
    /\ IF ci < Len(subreddits)
       THEN /\ ci' = ci + 1
            /\ hits' = Search(keywords.items[ki], subreddits[ci + 1])
            /\ hi' = 0
            /\ calls' = calls + 1
            /\ attempted' = attempted \cup { << ki, ci + 1 >> }
            /\ pc' = "submission"
       ELSE /\ pc' = "keyword"
            /\ UNCHANGED << ci, hits, hi, calls, attempted >>
    /\ UNCHANGED << since, keywords, subreddits, ki, clist, cj, mentions,
                    outcome, exc, result, reddit, inputs,
                    faults, failed, skipped, fetched >>

\* line 70 without the `continue`: on to the submission's comments
AfterStalePostFallThrough == "comments"

\* line 70: where a submission older than the window leads: `continue`
AfterStalePost == "submission"

\* lines 61-83: `for submission in subreddit.search(...)`
NextSubmission ==
    /\ pc = "submission"
    /\ IF hi < Len(hits)
       THEN LET submission == Submission(hits[hi + 1])
                post_time == FromTimestamp(submission.created_utc)
            IN  /\ hi' = hi + 1
                /\ IF IsStale(post_time, since)
                   THEN \* line 70
                        /\ skipped' = skipped \cup { submission.id }
                        /\ pc' = AfterStalePost
                        /\ UNCHANGED mentions
                   ELSE /\ mentions' =
                             AddIfValid(mentions,
                                 PostMention(submission, post_time,
                                             << ki, ci, hi + 1, 0 >>))
                        /\ pc' = "comments"
                        /\ UNCHANGED skipped
       ELSE /\ pc' = "subreddit"
            /\ UNCHANGED << hi, mentions, skipped >>
    /\ UNCHANGED << since, keywords, subreddits, ki, ci, hits, clist, cj,
                    outcome, exc, result, reddit, inputs,
                    calls, faults, attempted, failed, fetched >>

\* lines 86-87: replace_more(limit=0) and comments.list()[:10]
FetchComments ==
    /\ pc = "comments"
    /\ clist' = Take(CommentsOf(hits[hi]), CommentLimit)
    /\ cj' = 0
    /\ calls' = calls + 1
    /\ fetched' = fetched \cup { hits[hi] }
    /\ pc' = "comment"
    /\ UNCHANGED << since, keywords, subreddits, ki, ci, hits, hi, mentions,
                    outcome, exc, result, reddit, inputs,
                    faults, attempted, failed, skipped >>

\* lines 87-102: `for comment in ...`
NextComment ==
    /\ pc = "comment"
    /\ IF cj < Len(clist)
       THEN LET comment == clist[cj + 1]
                comment_time == FromTimestamp(comment.created_utc)
            IN  /\ cj' = cj + 1
                /\ mentions' =
                     IF IsStale(comment_time, since)
                     THEN mentions
                     ELSE AddIfValid(mentions,
                              CommentMention(comment, comment_time,
                                             << ki, ci, hi, cj + 1 >>))
                /\ pc' = "comment"
       ELSE /\ pc' = "submission"
            /\ UNCHANGED << cj, mentions >>
    /\ UNCHANGED << since, keywords, subreddits, ki, ci, hits, hi, clist,
                    outcome, exc, result, reddit, inputs, history >>

\* line 106 with `break`: on to the next keyword
AfterSubredditErrorBreak == "keyword"

\* line 106: where the handler resumes: `continue`
AfterSubredditError == "subreddit"

\* lines 104-106: an exception inside the inner try: the search listing
\* fails while it is read, replace_more fails, or building, validating or
\* normalising a comment fails
InnerExcept ==
    /\ pc \in { "submission", "comments", "comment" }
    /\ faults < MaxFaults
    /\ faults' = faults + 1
    /\ calls' = IF pc = "comments" THEN calls + 1 ELSE calls
    /\ failed' = failed \cup { << ki, ci >> }
    /\ pc' = AfterSubredditError
    /\ UNCHANGED << local, outcome, exc, result, reddit, inputs,
                    attempted, skipped, fetched >>

\* lines 108-109
OuterExcept ==
    /\ pc = "outer_except"
    /\ Raise(CollectionError("'" \o keywords.kind \o "' object is not iterable"))
    /\ UNCHANGED << local, reddit, inputs, history >>

\* line 111
Return ==
    /\ pc = "return"
    /\ pc' = "done"
    /\ outcome' = "returned"
    /\ result' = Some(mentions)
    /\ UNCHANGED << local, exc, reddit, inputs, history >>

Next ==
    \/ Construct
    \/ CollectBegin
    \/ NextKeyword
    \/ NextSubreddit
    \/ NextSubmission
    \/ FetchComments
    \/ NextComment
    \/ InnerExcept
    \/ OuterExcept
    \/ Return

Spec == Init /\ [][Next]_vars

-----------------------------------------------------------------------------
(* Properties.                                                             *)

\* what the caller holds once collect has returned, and `mentions` before
Collected == IF result # None THEN result[1] ELSE mentions

\* the earliest creation time the caller asked for
WindowStart == IF sinceArg = None THEN Clock - WindowHours ELSE sinceArg[1]

\* collect was entered and has ended
CollectEnded == pc = "done" /\ reddit # None

PostIds(list) == { list[i].post_id : i \in DOMAIN list }

\* C1: every mention collect has gathered or returned was created at or
\* after the window start: `since` when given, the time of the call minus
\* 24 hours when not.
C1_NothingBeforeWindow ==
    /\ \A i \in DOMAIN mentions : mentions[i].posted_at >= WindowStart
    /\ result # None =>
         \A i \in DOMAIN result[1] : result[1][i].posted_at >= WindowStart

\* C1 witness: a call without `since` returned a mention created exactly
\* at the window start after dropping an older submission.
C1_Witness ==
    /\ outcome = "returned"
    /\ sinceArg = None
    /\ skipped # {}
    /\ \E i \in DOMAIN result[1] : result[1][i].posted_at = WindowStart

\* C2 (as claimed): no two mentions of one collect result carry the same
\* post_id.
C2_PostIdsUnique ==
    \A i, j \in DOMAIN Collected :
        i # j => Collected[i].post_id # Collected[j].post_id

\* the comments collect would read of a submission that are inside the
\* window and pass validation
KeepableComments(id) ==
    LET cs == Take(CommentsOf(id), CommentLimit)
    IN  { cs[k].id : k \in { k \in DOMAIN cs :
            /\ FromTimestamp(cs[k].created_utc) >= WindowStart
            /\ ("reddit_" \o cs[k].id) \notin rejects } }

AllCommentIds(id) == { CommentsOf(id)[k].id : k \in DOMAIN CommentsOf(id) }

\* C3 (as claimed): when a submission older than the window start was
\* returned by a search that ran to its end, each of its first ten comments
\* that is inside the window and valid is in the result.
C3_CommentsOfStalePostKept ==
    (outcome = "returned" /\ failed = {}) =>
        \A id \in skipped : \A c \in KeepableComments(id) :
            ("reddit_" \o c) \in PostIds(result[1])

\* C3 (amended): a submission older than the window start is dropped
\* together with its comments: its comments are never fetched, and neither
\* it nor any comment of it is among the mentions.
C3_StalePostDropsComments ==
    \A id \in skipped :
        /\ id \notin fetched
        /\ ("reddit_" \o id) \notin PostIds(Collected)
        /\ \A c \in AllCommentIds(id) : ("reddit_" \o c) \notin PostIds(Collected)

\* C3 witness: collect returned mentions after dropping a submission that
\* has a comment inside the window which validation would accept.
C3_Witness ==
    /\ outcome = "returned"
    /\ result[1] # << >>
    /\ \E id \in skipped : KeepableComments(id) # {}

\* the (keyword, subreddit) positions of the call
AllPairs == (1..Len(keywords.items)) \X (1..Len(subreddits))

\* every item of the pair's search that is inside the window and valid is
\* in the result, at the pair's place
PairComplete(pair) ==
    LET found == Search(keywords.items[pair[1]], subreddits[pair[2]])
        Fresh(t) == FromTimestamp(t) >= WindowStart
        Has(id, origin) ==
            \/ ("reddit_" \o id) \in rejects
            \/ \E i \in DOMAIN result[1] :
                 /\ result[1][i].post_id = "reddit_" \o id
                 /\ result[1][i].origin = origin
    IN  \A h \in DOMAIN found :
          Fresh(Submission(found[h]).created_utc) =>
            /\ Has(found[h], << pair[1], pair[2], h, 0 >>)
            /\ LET cs == Take(CommentsOf(found[h]), CommentLimit)
               IN  \A k \in DOMAIN cs :
                     Fresh(cs[k].created_utc) =>
                       Has(cs[k].id, << pair[1], pair[2], h, k >>)

\* C4: an error raised while one subreddit is searched never reaches the
\* caller; collect still searches every (keyword, subreddit) pair and
\* returns everything the pairs without an error yield.
C4_SubredditErrorIsolated ==
    /\ outcome = "raised" => faults = 0
    /\ outcome = "returned" =>
         /\ attempted = AllPairs
         /\ \A pair \in AllPairs \ failed : PairComplete(pair)

\* C4 witness: collect returned after an error in one subreddit, with a
\* mention from a later subreddit of the same keyword and one from a later
\* keyword.
C4_Witness ==
    /\ outcome = "returned"
    /\ \E f \in failed : \E i, j \in DOMAIN result[1] :
         /\ result[1][i].origin[1] = f[1]
         /\ result[1][i].origin[2] > f[2]
         /\ result[1][j].origin[1] > f[1]

KeywordsEmptyOrAbsent ==
    "keywords" \notin DOMAIN topic \/ topic["keywords"] = "[]"

\* C5: with keywords absent or an empty JSON array, collect makes no
\* platform call and returns the empty list.
C5_NoKeywordsNoCalls ==
    KeywordsEmptyOrAbsent =>
        /\ calls = 0
        /\ (reddit # None /\ pc # "ready") =>
              /\ pc = "done"
              /\ outcome = "returned"
              /\ result = Some(<< >>)

\* C5 witness: a topic without keywords went through collect.
C5_Witness ==
    /\ "keywords" \notin DOMAIN topic
    /\ CollectEnded
    /\ outcome = "returned"

\* the keywords texts that are a non-empty JSON array of strings
KeywordArrays == { "[\"GME\"]", "[\"GME\", \"AMC\"]" }

\* C6 (as claimed): keywords that are missing, empty or not a JSON array
\* of strings make collect return the empty list without an error or a
\* platform call.
C6_BadKeywordsAsEmpty ==
    ( /\ CollectEnded
      /\ "keywords" \in DOMAIN topic => topic["keywords"] \notin KeywordArrays )
    => /\ outcome = "returned"
       /\ result = Some(<< >>)
       /\ calls = 0

\* C7 (as claimed): whatever fails in collect outside the handler of one
\* subreddit reaches the caller as a SourceCollectionError and nothing is
\* returned.
C7_OuterFailureWrapped ==
    (CollectEnded /\ outcome = "raised") =>
        /\ exc[1].type = "SourceCollectionError"
        /\ result = None

\* texts an exception message may put before its cause
MessagePrefixes ==
    { "", "Failed to initialize Reddit client: ", "Reddit collection failed: " }

Includes(message, cause) == \E pre \in MessagePrefixes : message = pre \o cause

\* construction has ended without a handle
ConstructFailed == pc = "done" /\ reddit = None

\* C8 (as claimed): a failed construction raises SourceInitializationError
\* with the cause's message in its message.
C8_InitializationErrorType ==
    ConstructFailed =>
        /\ outcome = "raised"
        /\ exc[1].type = "SourceInitializationError"
        /\ Includes(exc[1].message, exc[1].cause)

\* C8 (amended): a failed construction raises SourceCollectionError with
\* the cause's message in its message, and construction ends no other way
\* without a handle.
C8_InitFailureWrapped ==
    /\ pc # "new" => (reddit # None \/ ConstructFailed)
    /\ ConstructFailed =>
         /\ outcome = "raised"
         /\ exc[1].type = "SourceCollectionError"
         /\ exc[1].where = "__init__"
         /\ exc[1].cause # ""
         /\ Includes(exc[1].message, exc[1].cause)

\* C8 witness: praw.Reddit raised for a config that is a dict.
C8_Witness ==
    /\ ConstructFailed
    /\ config # None
    /\ exc # None

\* the loops of collect have been entered
Resolved ==
    pc \in { "keyword", "subreddit", "submission", "comments", "comment",
             "outer_except", "return" }

\* C9: a non-empty config['subreddits'] is the resolved list whatever the
\* type; without one the list is the built-in one of the type, [all] for a
\* type that has none.
C9_CommunityResolution ==
    (Resolved /\ "type" \in DOMAIN topic) =>
        LET custom == IF "subreddits" \in DOMAIN config[1]
                      THEN config[1]["subreddits"] ELSE << >>
            type == topic["type"]
        IN  IF custom # << >>
            THEN subreddits = custom
            ELSE /\ type = "stock" =>
                      subreddits = << "wallstreetbets", "stocks", "investing",
                                      "stockmarket", "options" >>
                 /\ type = "topic" =>
                      subreddits = << "technology", "Futurology", "science",
                                      "news" >>
                 /\ type = "keyword" => subreddits = << "all" >>
                 /\ type \notin { "stock", "topic", "keyword" } =>
                      subreddits = << "all" >>

\* C9 witness: config subreddits [foo, bar] with a topic of type stock.
C9_Witness ==
    /\ Resolved
    /\ config = Some([ subreddits |-> << "foo", "bar" >> ])
    /\ "type" \in DOMAIN topic
    /\ topic["type"] = "stock"

\* a comes before b in the order keyword, subreddit, submission, comment
OriginBefore(a, b) ==
    \E n \in 1..4 : a[n] < b[n] /\ \A m \in 1..(n - 1) : a[m] = b[m]

\* the item the platform served at a place of the loops
ItemAt(origin) ==
    LET id == Search(keywords.items[origin[1]], subreddits[origin[2]])[origin[3]]
    IN  IF origin[4] = 0 THEN id ELSE CommentsOf(id)[origin[4]].id

\* C10: the mentions are in the order of the loops: by keyword, then by
\* subreddit, then by the search's order, a submission before its comments
\* and those before the next submission; each mention is the item served
\* at its place.
C10_ResultOrder ==
    /\ \A i, j \in DOMAIN Collected :
         i < j => OriginBefore(Collected[i].origin, Collected[j].origin)
    /\ \A i \in DOMAIN Collected :
         Collected[i].post_id = "reddit_" \o ItemAt(Collected[i].origin)

\* C10 witness: the result holds mentions of two keywords, of two
\* subreddits of one keyword, and a submission followed by its comment.
C10_Witness ==
    /\ outcome = "returned"
    /\ \E i, j, k \in DOMAIN result[1] :
         /\ result[1][i].origin[1] < result[1][j].origin[1]
         /\ result[1][i].origin[1] = result[1][k].origin[1]
         /\ result[1][i].origin[2] < result[1][k].origin[2]
    /\ \E i \in DOMAIN result[1] :
         /\ i + 1 \in DOMAIN result[1]
         /\ result[1][i].origin[4] = 0
         /\ result[1][i + 1].origin[4] = 1
         /\ result[1][i + 1].origin[3] = result[1][i].origin[3]

====
